---- MODULE Spec2Model ----
(***************************************************************************)
(* Model of app.py: the per-line issue detector (detect_issues) and the    *)
(* Flask request handler (index) that runs the detector, asks the          *)
(* LLMSuggester for one suggestion per issue and renders TEMPLATE.         *)
(*                                                                         *)
(* Text is a sequence of Unicode code points (Python str); an uploaded     *)
(* file is a sequence of bytes (0..255).                                   *)
(***************************************************************************)
EXTENDS Integers, Sequences, FiniteSets, TLC

VARIABLES
    pc,          \* position of the server: "idle", "load", "loop", "responded", "failed"
    method,      \* request.method of the request being handled
    form_code,   \* request.form.get("code", "")
    file,        \* request.files.get("file"): [present, filename, data]
    code,        \* local variable code of index()
    issues,      \* local variable issues of index()
    idx,         \* position of the for loop over issues (1-based, next issue)
    metrics,     \* local variable metrics of index()
    detectLog,   \* texts detect_issues was called with in this request
    loads,       \* number of LLMSuggester() constructions in this request
    calls,       \* suggest_for_issue calls of this request: [issue, result]
    response,    \* what the request produced
    dpc,         \* a call of detect_issues: "start" before it, "done" after it
    dfilename,   \* a call of detect_issues: the filename argument
    dtext,       \* a call of detect_issues: the text argument
    dlines,      \* a call of detect_issues: the lines the detector scanned
    dissues      \* a call of detect_issues: the list returned

vars == <<pc, method, form_code, file, code, issues, idx, metrics, detectLog,
          loads, calls, response, dpc, dfilename, dtext, dlines, dissues>>

hvars == <<pc, method, form_code, file, code, issues, idx, metrics, detectLog,
           loads, calls, response>>

dvars == <<dpc, dfilename, dtext, dlines, dissues>>

(***************************************************************************)
(* Characters                                                              *)
(***************************************************************************)

\* ord() of the characters used in literals of the program and of the inputs
Ord ==
    ("\t" :> 9) @@ ("\n" :> 10) @@ ("\r" :> 13) @@ (" " :> 32) @@ ("#" :> 35) @@
    ("'" :> 39) @@ ("(" :> 40) @@ (")" :> 41) @@ ("1" :> 49) @@ (":" :> 58) @@
    ("=" :> 61) @@ ("D" :> 68) @@ ("E" :> 69) @@ ("O" :> 79) @@ ("T" :> 84) @@
    ("V" :> 86) @@ ("a" :> 97) @@ ("b" :> 98) @@ ("c" :> 99) @@ ("d" :> 100) @@
    ("e" :> 101) @@ ("f" :> 102) @@ ("g" :> 103) @@ ("i" :> 105) @@
    ("l" :> 108) @@ ("n" :> 110) @@ ("o" :> 111) @@ ("p" :> 112) @@
    ("r" :> 114) @@ ("t" :> 116) @@ ("u" :> 117) @@ ("x" :> 120)

\* a literal, written as a tuple of one-character strings, as code points
Str(cs) == [k \in 1..Len(cs) |-> Ord[cs[k]]]

\* str.isspace() / the class \s of re for str patterns
Whitespace ==
    (9..13) \cup (28..32) \cup {133, 160, 5760} \cup (8192..8202) \cup
    {8232, 8233, 8239, 8287, 12288}

\* the line boundaries of str.splitlines()
LineBoundaries == {10, 11, 12, 13, 28, 29, 30, 133, 8232, 8233}

\* x in y for str: x occurs as a contiguous substring of y
Contains(x, y) ==
    \E k \in 0..(Len(y) - Len(x)) : SubSeq(y, k + 1, k + Len(x)) = x

(***************************************************************************)
(* str.splitlines(): split at line boundaries, "\r\n" counting as one,     *)
(* terminators dropped, no empty last line after a final terminator.       *)
(***************************************************************************)
RECURSIVE SplitFrom(_, _, _)
SplitFrom(text, start, acc) ==
    IF start > Len(text) THEN acc
    ELSE LET ends == {k \in start..Len(text) : text[k] \in LineBoundaries}
         IN IF ends = {}
            THEN Append(acc, SubSeq(text, start, Len(text)))
            ELSE LET k == CHOOSE e \in ends : \A o \in ends : e <= o
                     next == IF text[k] = 13 /\ k < Len(text) /\ text[k + 1] = 10
                             THEN k + 2 ELSE k + 1
                 IN SplitFrom(text, next, Append(acc, SubSeq(text, start, k - 1)))

\* str.split("\n") in place of splitlines(): an empty last line after a final
\* terminator
splitlines_EmptyLastLine(text) ==
    IF text # <<>> /\ text[Len(text)] \in LineBoundaries
    THEN Append(SplitFrom(text, 1, <<>>), <<>>)
    ELSE SplitFrom(text, 1, <<>>)

splitlines(text) == SplitFrom(text, 1, <<>>)

(***************************************************************************)
(* re.match(r"^\s*except\s*:\s*$", line)                                   *)
(***************************************************************************)
BareExceptPattern ==
    <<[kind |-> "bol", ch |-> 0], [kind |-> "ws*", ch |-> 0]>>
    \o [k \in 1..6 |-> [kind |-> "lit", ch |-> Str(<<"e", "x", "c", "e", "p", "t">>)[k]]]
    \o <<[kind |-> "ws*", ch |-> 0], [kind |-> "lit", ch |-> Ord[":"]],
         [kind |-> "ws*", ch |-> 0], [kind |-> "eol", ch |-> 0]>>

\* backtracking match of pattern items j.. against s from position k;
\* re.match anchors the start only, "$" matches at the end of the string
\* or just before a final "\n"
RECURSIVE MatchFrom(_, _, _, _)
MatchFrom(pat, j, s, k) ==
    IF j > Len(pat) THEN TRUE
    ELSE CASE pat[j].kind = "bol" -> k = 1 /\ MatchFrom(pat, j + 1, s, k)
           [] pat[j].kind = "eol" ->
                  /\ \/ k = Len(s) + 1
                     \/ k = Len(s) /\ s[k] = 10
                  /\ MatchFrom(pat, j + 1, s, k)
           [] pat[j].kind = "lit" ->
                  /\ k <= Len(s)
                  /\ s[k] = pat[j].ch
                  /\ MatchFrom(pat, j + 1, s, k + 1)
           [] pat[j].kind = "ws*" ->
                  \/ k <= Len(s) /\ s[k] \in Whitespace /\ MatchFrom(pat, j, s, k + 1)
                  \/ MatchFrom(pat, j + 1, s, k)

re_match(pat, s) == MatchFrom(pat, 1, s, 1)

(***************************************************************************)
(* detect_issues                                                           *)
(***************************************************************************)
MaxLineLength == 120

Issue(f, l, c, m, s) ==
    [file |-> f, line |-> l, category |-> c, message |-> m, snippet |-> s]

StyleMessage(line) ==
    "Line length " \o ToString(Len(line)) \o " exceeds 120 chars"

\* >= in place of >
StyleCheck_AtLeast(line) == Len(line) >= MaxLineLength

StyleCheck(line) == Len(line) > MaxLineLength

\* line.startswith("TODO") in place of "TODO" in line
TodoCheck_Prefix(line) ==
    Len(line) >= 4 /\ SubSeq(line, 1, 4) = Str(<<"T", "O", "D", "O">>)

TodoCheck(line) == Contains(Str(<<"T", "O", "D", "O">>), line)

PrintCheck(line) == Contains(Str(<<"p", "r", "i", "n", "t", "(">>), line)

\* a substring search in place of the anchored pattern
BareExceptCheck_Search(line) ==
    Contains(Str(<<"e", "x", "c", "e", "p", "t">>), line)

BareExceptCheck(line) == re_match(BareExceptPattern, line)

\* the TODO check placed before the length check
LineIssues_TodoFirst(filename, i, line) ==
    (IF TodoCheck(line)
     THEN <<Issue(filename, i, "Maintainability", "TODO left in code", line)>>
     ELSE <<>>)
    \o (IF StyleCheck(line)
        THEN <<Issue(filename, i, "Style", StyleMessage(line), line)>> ELSE <<>>)
    \o (IF PrintCheck(line)
        THEN <<Issue(filename, i, "BestPractice",
                     "Avoid print in library code; prefer logging", line)>>
        ELSE <<>>)
    \o (IF BareExceptCheck(line)
        THEN <<Issue(filename, i, "ErrorHandling",
                     "Bare except detected; catch specific exceptions", line)>>
        ELSE <<>>)

\* the body of the for loop: the issues appended for line number i
LineIssues(filename, i, line) ==
    (IF StyleCheck(line)
     THEN <<Issue(filename, i, "Style", StyleMessage(line), line)>> ELSE <<>>)
    \o (IF TodoCheck(line)
        THEN <<Issue(filename, i, "Maintainability", "TODO left in code", line)>>
        ELSE <<>>)
    \o (IF PrintCheck(line)
        THEN <<Issue(filename, i, "BestPractice",
                     "Avoid print in library code; prefer logging", line)>>
        ELSE <<>>)
    \o (IF BareExceptCheck(line)
        THEN <<Issue(filename, i, "ErrorHandling",
                     "Bare except detected; catch specific exceptions", line)>>
        ELSE <<>>)

RECURSIVE ScanLines(_, _, _, _)
ScanLines(filename, lines, i, acc) ==
    IF i > Len(lines) THEN acc
    ELSE ScanLines(filename, lines, i + 1, acc \o LineIssues(filename, i, lines[i]))

detect_issues(filename, text) == ScanLines(filename, splitlines(text), 1, <<>>)

(***************************************************************************)
(* bytes.decode("utf-8", errors="replace") and str.strip()                 *)
(***************************************************************************)
ReplacementChar == 65533

\* number of continuation bytes the lead byte b announces, -1 for a byte
\* that cannot start a sequence
Utf8Need(b) ==
    IF b < 128 THEN 0
    ELSE IF b >= 194 /\ b <= 223 THEN 1
    ELSE IF b >= 224 /\ b <= 239 THEN 2
    ELSE IF b >= 240 /\ b <= 244 THEN 3
    ELSE -1

\* is c acceptable as the n-th continuation byte after lead byte b
Utf8ContOk(b, n, c) ==
    IF n > 1 THEN c >= 128 /\ c <= 191
    ELSE IF b = 224 THEN c >= 160 /\ c <= 191
    ELSE IF b = 237 THEN c >= 128 /\ c <= 159
    ELSE IF b = 240 THEN c >= 144 /\ c <= 191
    ELSE IF b = 244 THEN c >= 128 /\ c <= 143
    ELSE c >= 128 /\ c <= 191

\* number of valid continuation bytes that follow the lead byte at k
RECURSIVE Utf8Have(_, _, _)
Utf8Have(data, k, n) ==
    IF n < Utf8Need(data[k]) /\ k + n + 1 <= Len(data)
       /\ Utf8ContOk(data[k], n + 1, data[k + n + 1])
    THEN Utf8Have(data, k, n + 1)
    ELSE n

Utf8Value(data, k, n) ==
    IF n = 0 THEN data[k]
    ELSE IF n = 1 THEN (data[k] - 192) * 64 + (data[k + 1] - 128)
    ELSE IF n = 2 THEN (data[k] - 224) * 4096 + (data[k + 1] - 128) * 64
                       + (data[k + 2] - 128)
    ELSE (data[k] - 240) * 262144 + (data[k + 1] - 128) * 4096
         + (data[k + 2] - 128) * 64 + (data[k + 3] - 128)

RECURSIVE DecodeFrom(_, _, _)
DecodeFrom(data, k, acc) ==
    IF k > Len(data) THEN acc
    ELSE LET need == Utf8Need(data[k])
             have == Utf8Have(data, k, 0)
         IN IF need >= 0 /\ have = need
            THEN DecodeFrom(data, k + need + 1, Append(acc, Utf8Value(data, k, need)))
            ELSE DecodeFrom(data, k + have + 1, Append(acc, ReplacementChar))

decode(data) == DecodeFrom(data, 1, <<>>)

RECURSIVE lstrip(_)
lstrip(s) ==
    IF s # <<>> /\ Head(s) \in Whitespace THEN lstrip(Tail(s)) ELSE s

RECURSIVE rstrip(_)
rstrip(s) ==
    IF s # <<>> /\ s[Len(s)] \in Whitespace
    THEN rstrip(SubSeq(s, 1, Len(s) - 1)) ELSE s

strip(s) == rstrip(lstrip(s))

(***************************************************************************)
(* Inputs                                                                  *)
(***************************************************************************)
MaxChunks == 3
MaxPasteChunks == 2
MaxFileChunks == 2

RECURSIVE Concat(_)
Concat(cs) == IF cs = <<>> THEN <<>> ELSE Head(cs) \o Concat(Tail(cs))

ChunkTexts(chunks, n) ==
    {Concat(cs) : cs \in UNION {[1..m -> chunks] : m \in 0..n}}

\* a run of characters one short of the longest line Style accepts
Pad == [k \in 1..(MaxLineLength - 1) |-> Ord["a"]]

DetectChunks ==
    {Pad, Str(<<"T", "O", "D", "O">>), Str(<<"p", "r", "i", "n", "t", "(">>),
     Str(<<"e", "x", "c", "e", "p", "t">>), Str(<<":">>), Str(<<" ">>),
     Str(<<"\n">>), Str(<<"\r">>)}

\* "x = 1\nprint('debug')  # TODO fix\nexcept:\n"
ExampleText ==
    Str(<<"x", " ", "=", " ", "1", "\n",
          "p", "r", "i", "n", "t", "(", "'", "d", "e", "b", "u", "g", "'", ")",
          " ", " ", "#", " ", "T", "O", "D", "O", " ", "f", "i", "x", "\n",
          "e", "x", "c", "e", "p", "t", ":", "\n">>)

\* "except ValueError:"
TypedExceptText ==
    Str(<<"e", "x", "c", "e", "p", "t", " ", "V", "a", "l", "u", "e",
          "E", "r", "r", "o", "r", ":">>)

\* " \texcept \t: \t": a bare except with whitespace everywhere it may be
SpacedExceptText ==
    Str(<<" ", "\t", "e", "x", "c", "e", "p", "t", " ", "\t", ":", " ", "\t">>)

\* "TODO", vertical tab, "print(", line separator, "except:", unit separator
OtherBoundariesText ==
    Str(<<"T", "O", "D", "O">>) \o <<11>> \o Str(<<"p", "r", "i", "n", "t", "(">>)
    \o <<8232>> \o Str(<<"e", "x", "c", "e", "p", "t", ":">>) \o <<31>>

\* a 130-character line containing both "TODO" and "print("
LongLineText ==
    Pad \o Str(<<"T", "O", "D", "O">>) \o Str(<<"p", "r", "i", "n", "t", "(">>)
    \o Str(<<"x">>)

DetectTexts ==
    ChunkTexts(DetectChunks, MaxChunks)
    \cup {ExampleText, TypedExceptText, SpacedExceptText, OtherBoundariesText,
          LongLineText}

Filenames == {"uploaded_code.py", "a.py"}

PasteChunks ==
    {Str(<<"T", "O", "D", "O">>), Str(<<"p", "r", "i", "n", "t", "(">>),
     Str(<<"\n">>)}

PasteTexts == ChunkTexts(PasteChunks, MaxPasteChunks)

\* bytes: an invalid byte, the two bytes of U+00E9 apart, a space, b"TODO"
FileChunks == {<<255>>, <<195>>, <<169>>, <<32>>, <<84, 79, 68, 79>>}

NoFile == [present |-> FALSE, filename |-> "", data |-> <<>>]

Files ==
    {NoFile} \cup
    [present : {TRUE}, filename : {"", "f.py"},
     data : ChunkTexts(FileChunks, MaxFileChunks)]

\* the strings the model's generate/decode may return
Suggestions == {"prefer logging", "remove the marker"}

(***************************************************************************)
(* index(): the request handler                                            *)
(***************************************************************************)
NoResponse ==
    [status |-> 0, textarea |-> <<>>, charts |-> FALSE, table |-> FALSE,
     rows |-> <<>>]

\* an exception leaving index(): Flask answers 500, TEMPLATE is not rendered
ServerError ==
    [status |-> 500, textarea |-> <<>>, charts |-> FALSE, table |-> FALSE,
     rows |-> <<>>]

\* TEMPLATE without the {% if metrics %} guard
render_template_NoGuard(c, m) ==
    [status |-> 200, textarea |-> c, charts |-> TRUE, table |-> TRUE,
     rows |-> m]

\* render_template_string(TEMPLATE, code=code, metrics=metrics): the textarea
\* echoes code; the charts card, the findings table and the chart script are
\* inside {% if metrics %}
render_template(c, m) ==
    [status |-> 200, textarea |-> c, charts |-> m # <<>>, table |-> m # <<>>,
     rows |-> IF m # <<>> THEN m ELSE <<>>]

\* if file and file.filename
FileUploaded(f) == f.present /\ f.filename # ""

\* the pasted text preferred to the upload
SelectedText_PasteFirst(fc, f) ==
    IF fc # <<>> THEN fc ELSE IF FileUploaded(f) THEN decode(f.data) ELSE fc

\* code = request.form.get("code", ""), replaced by the decoded upload
SelectedText(fc, f) == IF FileUploaded(f) THEN decode(f.data) ELSE fc

\* if code: without the strip
ShouldAnalyze_NoStrip(c) == c # <<>>

\* if code.strip()
ShouldAnalyze(c) == strip(c) # <<>>

\* the line number of the entry counted from 0
MetricsEntry_ZeroBased(issue, suggestion) ==
    [file |-> issue.file, line |-> issue.line - 1, category |-> issue.category,
     message |-> issue.message, snippet |-> issue.snippet,
     suggestion |-> suggestion]

\* the dict appended to metrics for one issue
MetricsEntry(issue, suggestion) ==
    [file |-> issue.file, line |-> issue.line, category |-> issue.category,
     message |-> issue.message, snippet |-> issue.snippet,
     suggestion |-> suggestion]

DetectorIdle ==
    /\ dpc = "start"
    /\ dfilename = "uploaded_code.py"
    /\ dtext = <<>>
    /\ dlines = <<>>
    /\ dissues = <<>>

HandlerIdle ==
    /\ pc = "idle"
    /\ method = "GET"
    /\ form_code = <<>>
    /\ file = NoFile
    /\ code = <<>>
    /\ issues = <<>>
    /\ idx = 1
    /\ metrics = <<>>
    /\ detectLog = <<>>
    /\ loads = 0
    /\ calls = <<>>
    /\ response = NoResponse

Init == HandlerIdle /\ DetectorIdle

\* the server is waiting for a request
Ready == pc = "idle"

\* GET /: the form fields are not read
GetRequest ==
    /\ Ready
    /\ \E fc \in PasteTexts, f \in Files :
          /\ form_code' = fc
          /\ file' = f
    /\ method' = "GET"
    /\ code' = <<>>
    /\ metrics' = <<>>
    /\ issues' = <<>>
    /\ idx' = 1
    /\ detectLog' = <<>>
    /\ loads' = 0
    /\ calls' = <<>>
    /\ response' = render_template(<<>>, <<>>)
    /\ pc' = "responded"
    /\ UNCHANGED dvars

\* POST /: from the start of index() to the call of detect_issues, or to the
\* rendering when there is nothing to analyze
PostRequest ==
    /\ Ready
    /\ \E fc \in PasteTexts, f \in Files :
          /\ form_code' = fc
          /\ file' = f
          /\ code' = SelectedText(fc, f)
    /\ method' = "POST"
    /\ metrics' = <<>>
    /\ idx' = 1
    /\ loads' = 0
    /\ calls' = <<>>
    /\ IF ShouldAnalyze(code')
       THEN /\ issues' = detect_issues("uploaded_code.py", code')
            /\ detectLog' = <<code'>>
            /\ response' = NoResponse
            /\ pc' = "load"
       ELSE /\ issues' = <<>>
            /\ detectLog' = <<>>
            /\ response' = render_template(code', <<>>)
            /\ pc' = "responded"
    /\ UNCHANGED dvars

\* suggester = LLMSuggester(): the tokenizer and the model are loaded
LoadSuggester ==
    /\ pc = "load"
    /\ loads' = loads + 1
    /\ pc' = "loop"
    /\ UNCHANGED <<method, form_code, file, code, issues, idx, metrics,
                   detectLog, calls, response>>
    /\ UNCHANGED dvars

\* from_pretrained raises: the exception leaves index()
LoadSuggesterFails ==
    /\ pc = "load"
    /\ loads' = loads + 1
    /\ response' = ServerError
    /\ pc' = "failed"
    /\ UNCHANGED <<method, form_code, file, code, issues, idx, metrics,
                   detectLog, calls>>
    /\ UNCHANGED dvars

\* one iteration of the for loop: suggest_for_issue returns a string
Suggest ==
    /\ pc = "loop"
    /\ idx <= Len(issues)
    /\ \E s \in Suggestions :
          /\ calls' = Append(calls, [issue |-> issues[idx], result |-> s])
          /\ metrics' = Append(metrics, MetricsEntry(issues[idx], s))
    /\ idx' = idx + 1
    /\ UNCHANGED <<pc, method, form_code, file, code, issues, detectLog, loads,
                   response>>
    /\ UNCHANGED dvars

\* the exception of suggest_for_issue caught and the issue skipped
SuggestFails_Swallowed ==
    /\ pc = "loop"
    /\ idx <= Len(issues)
    /\ calls' = Append(calls, [issue |-> issues[idx], result |-> "raise"])
    /\ idx' = idx + 1
    /\ UNCHANGED <<pc, method, form_code, file, code, issues, metrics,
                   detectLog, loads, response>>
    /\ UNCHANGED dvars

\* suggest_for_issue raises: nothing catches it, the request fails
SuggestFails ==
    /\ pc = "loop"
    /\ idx <= Len(issues)
    /\ calls' = Append(calls, [issue |-> issues[idx], result |-> "raise"])
    /\ response' = ServerError
    /\ pc' = "failed"
    /\ UNCHANGED <<method, form_code, file, code, issues, idx, metrics,
                   detectLog, loads>>
    /\ UNCHANGED dvars

\* the loop is over: return render_template_string(...)
Render ==
    /\ pc = "loop"
    /\ idx > Len(issues)
    /\ response' = render_template(code, metrics)
    /\ pc' = "responded"
    /\ UNCHANGED <<method, form_code, file, code, issues, idx, metrics,
                   detectLog, loads, calls>>
    /\ UNCHANGED dvars

\* the response is sent: the locals of index() are gone, nothing persists,
\* and the server waits for the next request
Return ==
    /\ pc \in {"responded", "failed"}
    /\ pc' = "idle"
    /\ method' = "GET"
    /\ form_code' = <<>>
    /\ file' = NoFile
    /\ code' = <<>>
    /\ issues' = <<>>
    /\ idx' = 1
    /\ metrics' = <<>>
    /\ detectLog' = <<>>
    /\ loads' = 0
    /\ calls' = <<>>
    /\ response' = NoResponse
    /\ UNCHANGED dvars

Next ==
    \/ GetRequest
    \/ PostRequest
    \/ LoadSuggester
    \/ LoadSuggesterFails
    \/ Suggest
    \/ SuggestFails
    \/ Render
    \/ Return

Spec == Init /\ [][Next]_vars

(***************************************************************************)
(* The detector on its own                                                 *)
(***************************************************************************)
InitDetect ==
    /\ HandlerIdle
    /\ dpc = "start"
    /\ dfilename \in Filenames
    /\ dtext \in DetectTexts
    /\ dlines = <<>>
    /\ dissues = <<>>

\* one call of detect_issues(dfilename, dtext)
Detect ==
    /\ dpc = "start"
    /\ dlines' = splitlines(dtext)
    /\ dissues' = detect_issues(dfilename, dtext)
    /\ dpc' = "done"
    /\ UNCHANGED <<dfilename, dtext>>
    /\ UNCHANGED hvars

NextDetect == Detect

SpecDetect == InitDetect /\ [][NextDetect]_vars

(***************************************************************************)
(* Properties of detect_issues, checked under SpecDetect                   *)
(***************************************************************************)
Categories == <<"Style", "Maintainability", "BestPractice", "ErrorHandling">>

Rank(c) == CHOOSE r \in 1..4 : Categories[r] = c

\* "except", then only whitespace, then ":" - once the whitespace around the
\* line is ignored
IsBareExcept(line) ==
    LET s == strip(line)
    IN /\ Len(s) >= 7
       /\ SubSeq(s, 1, 6) = Str(<<"e", "x", "c", "e", "p", "t">>)
       /\ s[Len(s)] = Ord[":"]
       /\ \A k \in 7..(Len(s) - 1) : s[k] \in Whitespace

\* the condition of check c on a line
Holds(c, line) ==
    CASE c = "Style" -> Len(line) > 120
      [] c = "Maintainability" -> Contains(Str(<<"T", "O", "D", "O">>), line)
      [] c = "BestPractice" -> Contains(Str(<<"p", "r", "i", "n", "t", "(">>), line)
      [] c = "ErrorHandling" -> IsBareExcept(line)

\* the positions of the findings of category c at line number i
FindingsAt(i, c) ==
    {k \in 1..Len(dissues) : dissues[k].line = i /\ dissues[k].category = c}

\* C1: the findings are, line by line in ascending 1-based line number, one
\* finding for each check whose condition holds on the line and none for the
\* others, in the order Style, Maintainability, BestPractice, ErrorHandling.
C1_FindingsInOrder ==
    dpc = "done" =>
        /\ \A k \in 1..Len(dissues) :
              /\ dissues[k].line \in 1..Len(dlines)
              /\ dissues[k].category \in {Categories[r] : r \in 1..4}
              /\ dissues[k].file = dfilename
              /\ dissues[k].snippet = dlines[dissues[k].line]
        /\ \A i \in 1..Len(dlines) : \A r \in 1..4 :
              Cardinality(FindingsAt(i, Categories[r])) =
                  IF Holds(Categories[r], dlines[i]) THEN 1 ELSE 0
        /\ \A k \in 1..(Len(dissues) - 1) :
              \/ dissues[k].line < dissues[k + 1].line
              \/ /\ dissues[k].line = dissues[k + 1].line
                 /\ Rank(dissues[k].category) < Rank(dissues[k + 1].category)

\* a 130-character line with "TODO" and "print(" gave Style, Maintainability,
\* BestPractice, in that order, and nothing else
C1_Witness ==
    /\ dpc = "done"
    /\ dtext = LongLineText
    /\ Len(dlines) = 1
    /\ Len(dlines[1]) = 130
    /\ [k \in 1..Len(dissues) |-> <<dissues[k].line, dissues[k].category>>]
           = <<<<1, "Style">>, <<1, "Maintainability">>, <<1, "BestPractice">>>>

\* the number of segments of a text delimited by "\n" alone, a final "\n"
\* closing the last segment
NewlineSegments(text) ==
    Cardinality({k \in 1..Len(text) : text[k] = 10})
    + (IF text # <<>> /\ text[Len(text)] # 10 THEN 1 ELSE 0)

\* the number of segments delimited by the line boundaries, "\r\n" being one
\* boundary, a final boundary closing the last segment
BoundarySegments(text) ==
    Cardinality({k \in 1..Len(text) :
                    /\ text[k] \in LineBoundaries
                    /\ ~(text[k] = 10 /\ k > 1 /\ text[k - 1] = 13)})
    + (IF text # <<>> /\ text[Len(text)] \notin LineBoundaries THEN 1 ELSE 0)

\* C2 as stated: the number of lines scanned, and the range of the line
\* numbers of the findings, is the number of newline-delimited segments of the
\* text; the empty text gives no finding.
C2_NewlineSegments ==
    dpc = "done" =>
        /\ Len(dlines) = NewlineSegments(dtext)
        /\ \A k \in 1..Len(dissues) : dissues[k].line \in 1..NewlineSegments(dtext)
        /\ (dtext = <<>> => dissues = <<>>)

\* C2 amended: the number of lines scanned, and the range of the line numbers
\* of the findings, is the number of segments delimited by the line boundaries
\* of str.splitlines ("\n", "\r", "\r\n" as one, "\v", "\f", "\x1c", "\x1d",
\* "\x1e", "\x85", U+2028, U+2029); the boundaries are dropped from the lines;
\* the empty text gives no finding.
C2_LineBoundarySegments ==
    dpc = "done" =>
        /\ Len(dlines) = BoundarySegments(dtext)
        /\ \A k \in 1..Len(dissues) : dissues[k].line \in 1..BoundarySegments(dtext)
        /\ \A i \in 1..Len(dlines) : \A k \in 1..Len(dlines[i]) :
              dlines[i][k] \notin LineBoundaries
        /\ (dtext = <<>> => dissues = <<>>)

\* a text whose second line starts after a "\r" has a finding at line 2
C2_Witness ==
    /\ dpc = "done"
    /\ dtext = Str(<<":", "\r", "T", "O", "D", "O">>)
    /\ Len(dlines) = 2
    /\ Len(dissues) = 1
    /\ dissues[1].line = 2

\* the pairs <<line, category>> of the findings, in order
LineCategories == [k \in 1..Len(dissues) |-> <<dissues[k].line, dissues[k].category>>]

\* C3 as stated: the example text has Maintainability and BestPractice at
\* line 2, ErrorHandling at line 3, nothing at line 1, four findings in all.
C3_ExampleFour ==
    (dpc = "done" /\ dtext = ExampleText) =>
        /\ \E k \in 1..Len(dissues) : LineCategories[k] = <<2, "Maintainability">>
        /\ \E k \in 1..Len(dissues) : LineCategories[k] = <<2, "BestPractice">>
        /\ \E k \in 1..Len(dissues) : LineCategories[k] = <<3, "ErrorHandling">>
        /\ \A k \in 1..Len(dissues) : dissues[k].line # 1
        /\ Len(dissues) = 4

\* C3 amended: the example text has exactly three findings: Maintainability
\* and BestPractice at line 2, ErrorHandling at line 3, nothing at line 1.
C3_ExampleThree ==
    (dpc = "done" /\ dtext = ExampleText) =>
        /\ LineCategories = <<<<2, "Maintainability">>, <<2, "BestPractice">>,
                              <<3, "ErrorHandling">>>>
        /\ dissues[1].message = "TODO left in code"
        /\ dissues[1].snippet = dlines[2]
        /\ Len(dlines) = 3

C3_Witness ==
    /\ dpc = "done"
    /\ dtext = ExampleText
    /\ Len(dissues) = 3

\* C4: a line has a Style finding exactly when it has more than 120
\* characters: none at 120, one at n >= 121, and its message is
\* "Line length n exceeds 120 chars" with the exact n.
C4_StyleThreshold ==
    dpc = "done" =>
        \A i \in 1..Len(dlines) :
            LET n == Len(dlines[i])
                found == FindingsAt(i, "Style")
            IN /\ (n <= 120 => found = {})
               /\ (n >= 121 => Cardinality(found) = 1)
               /\ \A k \in found :
                     /\ dissues[k].message =
                            "Line length " \o ToString(n) \o " exceeds 120 chars"
                     /\ (n = 121 => dissues[k].message =
                                        "Line length 121 exceeds 120 chars")

\* a line of 121 characters got its one Style finding, with 121 in the message
C4_Witness ==
    /\ dpc = "done"
    /\ Len(dlines) = 1
    /\ Len(dlines[1]) = 121
    /\ Len(dissues) = 1
    /\ dissues[1].category = "Style"
    /\ dissues[1].message = "Line length 121 exceeds 120 chars"

\* C5: a line has one ErrorHandling finding exactly when, leading and
\* trailing whitespace ignored, it is "except", optional whitespace and a
\* colon; "except ValueError:" and lines that only contain "except" have none.
C5_BareExceptWholeLine ==
    dpc = "done" =>
        /\ \A i \in 1..Len(dlines) :
              Cardinality(FindingsAt(i, "ErrorHandling")) =
                  IF IsBareExcept(dlines[i]) THEN 1 ELSE 0
        /\ (dtext = TypedExceptText => dissues = <<>>)

\* "except", whitespace, ":" with whitespace on both sides is flagged
C5_Witness ==
    /\ dpc = "done"
    /\ dtext = SpacedExceptText
    /\ Len(dissues) = 1
    /\ dissues[1].category = "ErrorHandling"
    /\ dissues[1].snippet = SpacedExceptText

(***************************************************************************)
(* Properties of index(), checked under Spec                               *)
(***************************************************************************)
\* the request was a POST whose text is not empty once stripped
AnalysisRan == method = "POST" /\ strip(code) # <<>>

\* C6: on a POST with a non-empty stripped text the suggestion generator is
\* called once per finding, one after the other in detection order, and the
\* list given to the renderer has the findings' length and order, each entry
\* with the finding's file, line, category, message and snippet unchanged and
\* the suggestion returned for that finding.
C6_OneSuggestionPerFinding ==
    (AnalysisRan /\ pc \in {"loop", "responded"}) =>
        /\ issues = detect_issues("uploaded_code.py", code)
        /\ Len(calls) = idx - 1
        /\ Len(metrics) = Len(calls)
        /\ \A k \in 1..Len(calls) :
              /\ k <= Len(issues)
              /\ calls[k].issue = issues[k]
              /\ calls[k].result \in Suggestions
              /\ metrics[k].file = issues[k].file
              /\ metrics[k].line = issues[k].line
              /\ metrics[k].category = issues[k].category
              /\ metrics[k].message = issues[k].message
              /\ metrics[k].snippet = issues[k].snippet
              /\ metrics[k].suggestion = calls[k].result
        /\ (pc = "responded" =>
               /\ Len(calls) = Len(issues)
               /\ response.rows = metrics)

\* a response was rendered for two findings that got different suggestions
C6_Witness ==
    /\ pc = "responded"
    /\ AnalysisRan
    /\ Len(issues) = 2
    /\ Len(response.rows) = 2
    /\ response.rows[1].category = "Maintainability"
    /\ response.rows[2].category = "BestPractice"
    /\ response.rows[1].suggestion # response.rows[2].suggestion

\* C7: when the text of the submission is empty once stripped, the detector
\* is not called, no suggester is built or called, the request does not fail
\* and the empty result set is rendered; GET / renders the same empty set.
C7_EmptyInputSkipsAnalysis ==
    (pc # "idle" /\ (method = "GET" \/ strip(SelectedText(form_code, file)) = <<>>)) =>
        /\ pc = "responded"
        /\ detectLog = <<>>
        /\ loads = 0
        /\ calls = <<>>
        /\ response.status = 200
        /\ response.rows = <<>>
        /\ ~response.table
        /\ ~response.charts

\* a POST of a text that is whitespace only, but not empty, was answered
C7_Witness ==
    /\ pc = "responded"
    /\ method = "POST"
    /\ code # <<>>
    /\ strip(code) = <<>>
    /\ response.status = 200
    /\ response.rows = <<>>

\* C8: on a POST with a pasted text and an uploaded file, the decoded content
\* of the file is the text that is tested for emptiness, analyzed and echoed,
\* and the pasted text is ignored; without an uploaded file it is the pasted
\* text.
C8_UploadTakesPrecedence ==
    (method = "POST" /\ pc # "idle") =>
        LET text == IF file.present /\ file.filename # ""
                    THEN decode(file.data) ELSE form_code
        IN /\ code = text
           /\ detectLog = (IF strip(text) # <<>> THEN <<text>> ELSE <<>>)
           /\ (pc = "responded" => response.textarea = text)

\* a pasted text with findings was ignored for an uploaded file that has none
C8_Witness ==
    /\ pc = "responded"
    /\ method = "POST"
    /\ file.present /\ file.filename # ""
    /\ strip(form_code) # <<>>
    /\ strip(decode(file.data)) # <<>>
    /\ form_code # decode(file.data)
    /\ response.textarea = decode(file.data)
    /\ response.rows = <<>>
    /\ detectLog = <<decode(file.data)>>

\* C9 as stated: the rendered response to a POST contains the input text and,
\* if analysis ran, the table of the rows and the charts, whatever the number
\* of findings, zero included.
C9_TableWheneverAnalysisRan ==
    (pc = "responded" /\ method = "POST") =>
        /\ response.textarea = code
        /\ (AnalysisRan =>
               /\ response.table
               /\ response.charts
               /\ response.rows = metrics)

\* C9 amended: the rendered response to a POST contains the input text and,
\* if analysis ran and produced at least one finding, the table of the rows
\* (file, line, category, message, snippet, suggestion) and the charts; with
\* no finding, or no analysis, it has neither the table nor the charts.
C9_TableWhenFindings ==
    (pc = "responded" /\ method = "POST") =>
        /\ response.status = 200
        /\ response.textarea = code
        /\ IF AnalysisRan /\ issues # <<>>
           THEN /\ response.table
                /\ response.charts
                /\ response.rows = metrics
                /\ Len(response.rows) = Len(issues)
                /\ \A k \in 1..Len(response.rows) :
                      DOMAIN response.rows[k] =
                          {"file", "line", "category", "message", "snippet",
                           "suggestion"}
           ELSE /\ ~response.table
                /\ ~response.charts
                /\ response.rows = <<>>

\* analysis ran on a text without findings and the page has no table
C9_Witness ==
    /\ pc = "responded"
    /\ AnalysisRan
    /\ issues = <<>>
    /\ loads = 1
    /\ response.status = 200
    /\ ~response.table

\* C10: a rendered response has a suggestion for every finding of the
\* detector; a failed suggestion call fails the whole request: it is the last
\* call of the request, it is not retried, and nothing is rendered.
C10_AllOrNothing ==
    /\ (pc = "responded" /\ AnalysisRan =>
           /\ Len(calls) = Len(issues)
           /\ Len(response.rows) = Len(issues)
           /\ \A k \in 1..Len(issues) :
                 /\ calls[k].issue = issues[k]
                 /\ calls[k].result \in Suggestions
                 /\ response.rows[k].suggestion = calls[k].result)
    /\ \A k \in 1..Len(calls) :
          calls[k].result = "raise" =>
              /\ k = Len(calls)
              /\ pc = "failed"
    /\ \A k \in 1..Len(calls) : k <= Len(issues) /\ calls[k].issue = issues[k]
    /\ (pc = "failed" =>
           /\ response.status = 500
           /\ response.rows = <<>>
           /\ ~response.table)

\* the second suggestion call of a request failed after the first succeeded
C10_Witness ==
    /\ pc = "failed"
    /\ Len(issues) = 2
    /\ Len(calls) = 2
    /\ calls[1].result \in Suggestions
    /\ calls[2].result = "raise"
    /\ Len(metrics) = 1
    /\ response.status = 500

====
